---- MODULE Spec2Model ----
(***************************************************************************)
(* Model of main.py: one run of main(), which fetches a random xkcd comic, *)
(* uploads it to a VK community wall in four platform calls and removes    *)
(* the downloaded file.  Every network function is wrapped by              *)
(* @retry(ConnectionError, tries=3, delay=10).                             *)
(*                                                                         *)
(* Strings are sequences of tokens.  A token is a run of ordinary          *)
(* characters ("a", "T", "photo", "10"), one special character ("/", ".",  *)
(* "?", "#", "_") or one percent escape ("%2E", "%2F").                    *)
(***************************************************************************)
EXTENDS Integers, Sequences, FiniteSets, TLC

VARIABLES
    pc,             \* position of main(): the operation to attempt next
    tries,          \* retry's _tries of the wrapped call in progress
    attempts,       \* times the body of the call in progress was entered
    metaOk,         \* successful metadata requests of the get_comics call
    downloads,      \* image-download requests of the get_comics call
    response,       \* the last response received: [op, status, error, body]
    sent,           \* operations for which a request was sent in this run
    returned,       \* operations that returned a value to main
    failure,        \* what main received from a failed call: [op, exc]
    exc,            \* exception propagating out of main ("none" if none)
    logs,           \* messages written by logging.info
    result,         \* "running", "returned" or "raised"
    comics_number,  \* randint(1, get_comics_amount())
    comics,         \* get_comics' local Comics object
    comic,          \* main's comic (result of get_comics)
    disk,           \* names of the files in the working directory
    opened,         \* file names opened for reading by upload_image
    removed,        \* file names passed to os.remove
    media_address,  \* result of get_wall_upload_server
    media,          \* result of upload_image
    photo_id,       \* first component of save_wall_photo's result
    owner_id,       \* second component of save_wall_photo's result
    saved,          \* first element of the photos.saveWallPhoto response
    post            \* payload of the wall.post request sent, or NoPost

vars == <<pc, tries, attempts, metaOk, downloads, response, sent, returned,
          failure, exc, logs, result, comics_number, comics, comic, disk, opened,
          removed, media_address, media, photo_id, owner_id, saved, post>>

(***************************************************************************)
(* Bounds of the model.                                                    *)
(***************************************************************************)
\* largest value of "num" the comic source answers
MaxNum == 2
\* longest image URL, in tokens after "http://x/"
MaxUrlLen == 3

(***************************************************************************)
(* Program constants.                                                      *)
(***************************************************************************)
\* @retry(..., tries=3, ...)
RetryTries == 3

\* tokens an image URL is made of after its prefix
UrlTokens == {"/", ".", "a", "?", "#", "%2E"}
\* "http://x/"
UrlPrefix == <<"http:", "//", "x", "/">>
\* titles the metadata may carry
Titles == {<<"T">>, <<"A", "/", "B">>}
\* ids the platform may answer for a saved photo
PhotoIds == {10, 20}

RECURSIVE SeqsUpTo(_, _)
SeqsUpTo(S, n) ==
    IF n = 0 THEN {<<>>}
    ELSE LET shorter == SeqsUpTo(S, n - 1)
         IN  shorter \cup {Append(s, x) : s \in {t \in shorter : Len(t) = n - 1}, x \in S}

\* "http://x/y/img.png?s=1"
ExampleUrl == <<"http:", "//", "x", "/", "y", "/", "img", ".", "png", "?", "s=1">>

ImageUrls == {UrlPrefix \o t : t \in SeqsUpTo(UrlTokens, MaxUrlLen)} \cup {ExampleUrl}

(***************************************************************************)
(* String helpers of the Python library, over token sequences.            *)
(***************************************************************************)
\* str.find: least index of a token of set S in s, 0 when there is none
Find(s, S) ==
    IF \E i \in 1..Len(s) : s[i] \in S
    THEN CHOOSE i \in 1..Len(s) : s[i] \in S /\ \A j \in 1..(i - 1) : s[j] \notin S
    ELSE 0

\* str.rfind: greatest index of token c in s, 0 when there is none
RFind(s, c) ==
    IF \E i \in 1..Len(s) : s[i] = c
    THEN CHOOSE i \in 1..Len(s) : s[i] = c /\ \A j \in (i + 1)..Len(s) : s[j] # c
    ELSE 0

\* mutant: the query string is left in the path
urlsplit_path_with_query(url) ==
    LET rest    == SubSeq(url, 3, Len(url))
        delim   == Find(rest, {"/", "?", "#"})
        afterNl == IF delim = 0 THEN <<>> ELSE SubSeq(rest, delim, Len(rest))
        hash    == Find(afterNl, {"#"})
    IN  IF hash = 0 THEN afterNl ELSE SubSeq(afterNl, 1, hash - 1)

\* urllib.parse.urlsplit(url, scheme='', allow_fragments=True).path:
\* after the scheme and "//" the netloc runs to the first "/", "?" or "#";
\* the fragment is cut at the first "#", then the query at the first "?".
urlsplit_path(url) ==
    LET rest    == SubSeq(url, 3, Len(url))
        delim   == Find(rest, {"/", "?", "#"})
        afterNl == IF delim = 0 THEN <<>> ELSE SubSeq(rest, delim, Len(rest))
        hash    == Find(afterNl, {"#"})
        noFrag  == IF hash = 0 THEN afterNl ELSE SubSeq(afterNl, 1, hash - 1)
        qm      == Find(noFrag, {"?"})
    IN  IF qm = 0 THEN noFrag ELSE SubSeq(noFrag, 1, qm - 1)

\* urllib.parse.unquote_plus on one token
unquote_token(c) ==
    CASE c = "%2E" -> "."
      [] c = "%2F" -> "/"
      [] c = "+"   -> " "
      [] OTHER     -> c

unquote_plus(s) == [i \in 1..Len(s) |-> unquote_token(s[i])]

\* genericpath._splitext: the loop that skips the leading dots of the name
RECURSIVE splitext_scan(_, _, _)
splitext_scan(p, filenameIndex, dotIndex) ==
    IF filenameIndex >= dotIndex THEN <<>>
    ELSE IF p[filenameIndex] # "." THEN SubSeq(p, dotIndex, Len(p))
    ELSE splitext_scan(p, filenameIndex + 1, dotIndex)

\* os.path.splitext(p)[1] (posixpath)
splitext_ext(p) ==
    LET sepIndex == RFind(p, "/")
        dotIndex == RFind(p, ".")
    IN  IF dotIndex > sepIndex THEN splitext_scan(p, sepIndex + 1, dotIndex)
        ELSE <<>>

\* get_file_extension(url)
get_file_extension(url) == splitext_ext(unquote_plus(urlsplit_path(url)))

\* f"comics{comics_number}_{comics.title}{file_extension}"
make_filename(n, title, ext) == <<"comics", ToString(n), "_">> \o title \o ext

\* f"photo{app_owner_id}_{photo_id}"
make_attachment(app_owner_id, pid) ==
    <<"photo", ToString(app_owner_id), "_", ToString(pid)>>

(***************************************************************************)
(* The run's configuration and the values the platform answers.           *)
(***************************************************************************)
\* env.int("VK_APP_CLIENT_ID"), env("ACCESS_TOKEN"), env.int("VK_GROUP_ID"),
\* env.int("FROM_GROUP", 1)
Env == [vk_app_client_id |-> 3, vk_access_token |-> "token",
        group_id |-> 7, from_group |-> 1]

NoComic == [title |-> <<>>, img_url |-> <<>>, alt_text |-> <<>>, filename |-> <<>>]
NoMedia == [server |-> 0, photo |-> "", hash |-> ""]
NoPost == [owner_id |-> <<>>, from_group |-> 0, message |-> <<>>, attachments |-> <<>>]
NoSaved == [id |-> 0, owner_id |-> 0]
NoFailure == [op |-> "none", exc |-> "none"]
NoResponse == [op |-> "none", status |-> "none", error |-> "absent", body |-> "good"]

FetchOps == {"get_comics_amount", "get_comics"}
PlatformOps == {"get_wall_upload_server", "upload_image", "save_wall_photo",
                "publish_wall_post"}

\* the order of the calls in main
Pipeline == <<"get_comics_amount", "get_comics", "get_wall_upload_server",
              "upload_image", "save_wall_photo", "publish_wall_post">>

OpIndex(op) == CHOOSE i \in 1..Len(Pipeline) : Pipeline[i] = op

\* mutant: the wall post is made right after the upload, the photo not saved
next_op_skips_save(op) ==
    IF OpIndex(op) = Len(Pipeline) THEN "finally"
    ELSE IF op = "upload_image" THEN "publish_wall_post"
    ELSE Pipeline[OpIndex(op) + 1]

\* where main goes when the call of op has returned
next_op(op) ==
    IF OpIndex(op) = Len(Pipeline) THEN "finally" ELSE Pipeline[OpIndex(op) + 1]

(***************************************************************************)
(* Responses.  status: the request raised ConnectionError, or was answered *)
(* with a non-2xx or a 2xx status.  error: the "error" field of the JSON   *)
(* body is absent, present but falsy ({} , "", 0, null), or a non-empty    *)
(* error object.  body: the rest of the body has the expected keys or not. *)
(***************************************************************************)
FailedResponses(op) ==
    {[op |-> op, status |-> s, error |-> "absent", body |-> "good"] :
        s \in {"ConnectionError", "non2xx"}}

XkcdResponses(op) ==
    FailedResponses(op) \cup
    {[op |-> op, status |-> "2xx", error |-> "absent", body |-> b] :
        b \in {"good", "bad"}}

DownloadResponses ==
    FailedResponses("get_comics") \cup
    {[op |-> "get_comics", status |-> "2xx", error |-> "absent", body |-> "good"]}

PlatformResponses(op) ==
    FailedResponses(op) \cup
    {[op |-> op, status |-> "2xx", error |-> e, body |-> b] :
        e \in {"absent", "empty", "object"}, b \in {"good", "bad"}}

\* mutant: the error field is never looked at
check_api_vk_response_ignored(r) == FALSE

\* check_api_vk_response raises: if error := response.json().get("error")
check_api_vk_response(r) == r.error = "object"

\* the exception one execution of a function body raises on response r,
\* "none" when it returns: requests raises ConnectionError,
\* raise_for_status raises HTTPError, check_api_vk_response raises HTTPError,
\* reading a body without the expected keys raises another exception
body_raises(op, r) ==
    IF r.status = "ConnectionError" THEN "ConnectionError"
    ELSE IF r.status = "non2xx" THEN "HTTPError"
    ELSE IF op \in PlatformOps /\ check_api_vk_response(r) THEN "HTTPError"
    ELSE IF r.body = "bad" THEN "Other"
    ELSE "none"

(***************************************************************************)
(* @retry(requests.exceptions.ConnectionError, tries=3, delay=10)          *)
(***************************************************************************)
\* mutant: the wrapper retries on every requests exception
retry_catches_http(e) == e \in {"ConnectionError", "HTTPError"}

\* except exceptions as e:
retry_catches(e) == e = "ConnectionError"

\* mutant: the test for the last try comes before the decrement
retry_gives_up_late(t) == t = 0

\* _tries -= 1; if not _tries: raise
retry_gives_up(t) == t - 1 = 0

\* the exception leaves the wrapper: it is not caught, or no try is left
propagates(e, t) == ~retry_catches(e) \/ retry_gives_up(t)

\* mutant: only the failed download is retried, not the whole function
retry_restart_download(op) == IF pc = "download_file" THEN "download_file" ELSE op

\* where a retried call starts again: the wrapper calls the whole function
retry_restart(op) == op

(***************************************************************************)
(* main's except clauses.  The first try block (get_comics_amount,         *)
(* get_comics) catches ConnectionError only and returns; the second        *)
(* catches HTTPError and ConnectionError and always runs the finally.      *)
(* main_handler_no_finally is the mutant whose cleanup is on the success   *)
(* path only.                                                              *)
(***************************************************************************)
main_handler_no_finally(op, e) ==
    IF op \in FetchOps
    THEN IF e = "ConnectionError"
         THEN [pc |-> "done", exc |-> "none", log |-> <<"ConnectionLost">>,
               result |-> "returned"]
         ELSE [pc |-> "done", exc |-> e, log |-> <<>>, result |-> "raised"]
    ELSE IF e = "HTTPError"
         THEN [pc |-> "done", exc |-> "none", log |-> <<"HTTPError">>,
               result |-> "returned"]
         ELSE IF e = "ConnectionError"
         THEN [pc |-> "done", exc |-> "none", log |-> <<"ConnectionLost">>,
               result |-> "returned"]
         ELSE [pc |-> "done", exc |-> e, log |-> <<>>, result |-> "raised"]

main_handler(op, e) ==
    IF op \in FetchOps
    THEN IF e = "ConnectionError"
         THEN [pc |-> "done", exc |-> "none", log |-> <<"ConnectionLost">>,
               result |-> "returned"]
         ELSE [pc |-> "done", exc |-> e, log |-> <<>>, result |-> "raised"]
    ELSE IF e = "HTTPError"
         THEN [pc |-> "finally", exc |-> "none", log |-> <<"HTTPError">>,
               result |-> "running"]
         ELSE IF e = "ConnectionError"
         THEN [pc |-> "finally", exc |-> "none", log |-> <<"ConnectionLost">>,
               result |-> "running"]
         ELSE [pc |-> "finally", exc |-> e, log |-> <<>>, result |-> "running"]

\* The control flow after one execution of the body of op ended with
\* exception e ("none": it returned and main goes on at successPc).
\* entered is the number of times the body has been entered.
Control(op, e, entered, successPc) ==
    IF e = "none"
    THEN /\ pc' = successPc
         /\ tries' = RetryTries
         /\ attempts' = 0
         /\ returned' = returned \cup {op}
         /\ UNCHANGED <<failure, exc, logs, result>>
    ELSE IF ~propagates(e, tries)
    THEN /\ pc' = retry_restart(op)
         /\ tries' = tries - 1
         /\ attempts' = entered
         /\ UNCHANGED <<returned, failure, exc, logs, result>>
    ELSE LET h == main_handler(op, e)
         IN  /\ pc' = h.pc
             /\ tries' = IF retry_catches(e) THEN tries - 1 ELSE tries
             /\ attempts' = entered
             /\ failure' = [op |-> op, exc |-> e]
             /\ exc' = h.exc
             /\ logs' = logs \o h.log
             /\ result' = h.result
             /\ UNCHANGED returned

(***************************************************************************)
(* Initial state: main has read its configuration and is about to call     *)
(* get_comics_amount; the working directory holds no comic file.           *)
(***************************************************************************)
Init ==
    /\ pc = "get_comics_amount"
    /\ tries = RetryTries
    /\ attempts = 0
    /\ metaOk = 0
    /\ downloads = 0
    /\ response = NoResponse
    /\ sent = {}
    /\ returned = {}
    /\ failure = NoFailure
    /\ exc = "none"
    /\ logs = <<>>
    /\ result = "running"
    /\ comics_number = 0
    /\ comics = NoComic
    /\ comic = NoComic
    /\ disk = {}
    /\ opened = {}
    /\ removed = <<>>
    /\ media_address = <<>>
    /\ media = NoMedia
    /\ photo_id = 0
    /\ owner_id = 0
    /\ saved = NoSaved
    /\ post = NoPost

(***************************************************************************)
(* comics_number = randint(1, get_comics_amount())                         *)
(***************************************************************************)
GetComicsAmount ==
    /\ pc = "get_comics_amount"
    /\ \E r \in XkcdResponses("get_comics_amount"), num \in 1..MaxNum :
        LET e == body_raises("get_comics_amount", r)
        IN  /\ response' = r
            /\ sent' = sent \cup {"get_comics_amount"}
            /\ Control("get_comics_amount", e, attempts + 1,
                       next_op("get_comics_amount"))
            /\ IF e = "none"
               THEN \E n \in 1..num : comics_number' = n
               ELSE UNCHANGED comics_number
    /\ UNCHANGED <<metaOk, downloads, comics, comic, disk, opened, removed,
                   media_address, media, photo_id, owner_id, saved, post>>

(***************************************************************************)
(* get_comics, first request: the metadata of comic comics_number.  The    *)
(* Comics object is built and its filename set before the download.        *)
(***************************************************************************)
GetComicsMetadata ==
    /\ pc = "get_comics"
    /\ \E r \in XkcdResponses("get_comics"), title \in Titles, img \in ImageUrls :
        LET e == body_raises("get_comics", r)
        IN  /\ response' = r
            /\ sent' = sent \cup {"get_comics"}
            /\ IF e = "none"
               THEN /\ comics' = [title |-> title, img_url |-> img,
                                  alt_text |-> <<"alt">>,
                                  filename |-> make_filename(comics_number, title,
                                                  get_file_extension(img))]
                    /\ metaOk' = metaOk + 1
                    /\ pc' = "download_file"
                    /\ attempts' = attempts + 1
                    /\ UNCHANGED <<tries, returned, failure, exc, logs, result>>
               ELSE /\ Control("get_comics", e, attempts + 1, "download_file")
                    /\ UNCHANGED <<comics, metaOk>>
    /\ UNCHANGED <<downloads, comics_number, comic, disk, opened, removed,
                   media_address, media, photo_id, owner_id, saved, post>>

(***************************************************************************)
(* get_comics, second request: download_file(comics.img_url,               *)
(* comics.filename).  open(path, 'wb') fails when the name has a directory *)
(* part, since the working directory has no such directory.  A             *)
(* ConnectionError restarts the whole function.                            *)
(***************************************************************************)
can_create(filename) == \A i \in 1..Len(filename) : filename[i] # "/"

\* mutant: the image is not written under the given name
write_file_elsewhere(d, filename) == d

\* with open(path_to_download, 'wb') as file: file.write(response.content)
write_file(d, filename) == d \cup {filename}

DownloadFile ==
    /\ pc = "download_file"
    /\ \E r \in DownloadResponses :
        LET b == body_raises("get_comics", r)
            e == IF b # "none" THEN b
                 ELSE IF ~can_create(comics.filename) THEN "Other"
                 ELSE "none"
        IN  /\ response' = r
            /\ Control("get_comics", e, attempts, next_op("get_comics"))
            /\ IF e = "none"
               THEN /\ disk' = write_file(disk, comics.filename)
                    /\ comic' = comics
                    /\ metaOk' = 0
                    /\ downloads' = 0
               ELSE /\ downloads' = downloads + 1
                    /\ UNCHANGED <<disk, comic, metaOk>>
    /\ comics' = NoComic
    /\ UNCHANGED <<sent, comics_number, opened, removed, media_address, media,
                   photo_id, owner_id, saved, post>>

(***************************************************************************)
(* media_address = get_wall_upload_server(vk_app_client_id, token)         *)
(***************************************************************************)
GetWallUploadServer ==
    /\ pc = "get_wall_upload_server"
    /\ \E r \in PlatformResponses("get_wall_upload_server") :
        LET e == body_raises("get_wall_upload_server", r)
        IN  /\ response' = r
            /\ sent' = sent \cup {"get_wall_upload_server"}
            /\ Control("get_wall_upload_server", e, attempts + 1,
                       next_op("get_wall_upload_server"))
            /\ media_address' = IF e = "none" THEN <<"upload_url">> ELSE media_address
    /\ UNCHANGED <<metaOk, downloads, comics_number, comics, comic, disk, opened,
                   removed, media, photo_id, owner_id, saved, post>>

(***************************************************************************)
(* media = upload_image(media_address, comic.filename): the file is opened *)
(* for reading before the request; a missing file raises                   *)
(* FileNotFoundError and no request is sent.                               *)
(***************************************************************************)
UploadImage ==
    /\ pc = "upload_image"
    /\ \E r \in PlatformResponses("upload_image") :
        LET found == comic.filename \in disk
            e == IF found THEN body_raises("upload_image", r) ELSE "Other"
        IN  /\ response' = IF found THEN r ELSE response
            /\ sent' = IF found THEN sent \cup {"upload_image"} ELSE sent
            /\ opened' = IF found THEN opened \cup {comic.filename} ELSE opened
            /\ Control("upload_image", e, attempts + 1, next_op("upload_image"))
            /\ media' = IF e = "none"
                        THEN [server |-> 1, photo |-> "p", hash |-> "h"]
                        ELSE media
    /\ UNCHANGED <<metaOk, downloads, comics_number, comics, comic, disk,
                   removed, media_address, photo_id, owner_id, saved, post>>

(***************************************************************************)
(* photo_id, owner_id = save_wall_photo(media, vk_app_client_id, token)    *)
(***************************************************************************)
\* mutant: the two ids are returned in the other order
save_wall_photo_return_swapped(item) == <<item.owner_id, item.id>>

\* return uploaded_photo_id, app_owner_id
save_wall_photo_return(item) == <<item.id, item.owner_id>>

SaveWallPhoto ==
    /\ pc = "save_wall_photo"
    /\ \E r \in PlatformResponses("save_wall_photo"), i \in PhotoIds, o \in PhotoIds :
        LET e == body_raises("save_wall_photo", r)
            item == [id |-> i, owner_id |-> o]
            ret == save_wall_photo_return(item)
        IN  /\ response' = r
            /\ sent' = sent \cup {"save_wall_photo"}
            /\ Control("save_wall_photo", e, attempts + 1, next_op("save_wall_photo"))
            /\ IF e = "none"
               THEN /\ saved' = item
                    /\ photo_id' = ret[1]
                    /\ owner_id' = ret[2]
               ELSE UNCHANGED <<saved, photo_id, owner_id>>
    /\ UNCHANGED <<metaOk, downloads, comics_number, comics, comic, disk, opened,
                   removed, media_address, media, post>>

(***************************************************************************)
(* publish_wall_post(group_id, comic.alt_text, photo_id, owner_id, token,  *)
(* from_group): every attempt sends the wall.post request.                 *)
(***************************************************************************)
publish_payload(group_id, message, pid, app_owner_id, from_group) ==
    [owner_id |-> <<"-", ToString(group_id)>>,
     from_group |-> from_group,
     message |-> message,
     attachments |-> make_attachment(app_owner_id, pid)]

PublishWallPost ==
    /\ pc = "publish_wall_post"
    /\ \E r \in PlatformResponses("publish_wall_post") :
        LET e == body_raises("publish_wall_post", r)
        IN  /\ response' = r
            /\ sent' = sent \cup {"publish_wall_post"}
            /\ post' = publish_payload(Env.group_id, comic.alt_text, photo_id,
                                       owner_id, Env.from_group)
            /\ Control("publish_wall_post", e, attempts + 1,
                       next_op("publish_wall_post"))
    /\ UNCHANGED <<metaOk, downloads, comics_number, comics, comic, disk, opened,
                   removed, media_address, media, photo_id, owner_id, saved>>

(***************************************************************************)
(* finally: with suppress(FileNotFoundError): os.remove(comic.filename);   *)
(* then main returns, or the exception no clause caught leaves main.       *)
(***************************************************************************)
\* the working directory after os.remove(filename)
os_remove(d, filename) == d \ {filename}

Finally ==
    /\ pc = "finally"
    /\ removed' = Append(removed, comic.filename)
    /\ disk' = os_remove(disk, comic.filename)
    /\ result' = IF exc = "none" THEN "returned" ELSE "raised"
    /\ pc' = "done"
    /\ UNCHANGED <<tries, attempts, metaOk, downloads, response, sent, returned,
                   failure, exc, logs, comics_number, comics, comic, opened,
                   media_address, media, photo_id, owner_id, saved, post>>

Next ==
    \/ GetComicsAmount
    \/ GetComicsMetadata
    \/ DownloadFile
    \/ GetWallUploadServer
    \/ UploadImage
    \/ SaveWallPhoto
    \/ PublishWallPost
    \/ Finally

Spec == Init /\ [][Next]_vars

(***************************************************************************)
(*                              Properties                                 *)
(***************************************************************************)
Ended == pc = "done"

\* the operations main calls after op
LaterOps(op) == {Pipeline[j] : j \in (OpIndex(op) + 1)..Len(Pipeline)}
\* the operations main calls before op
EarlierOps(op) == {Pipeline[j] : j \in 1..(OpIndex(op) - 1)}

\* C1: in every run in which get_comics succeeded, the file comic.filename
\* does not exist when main ends, whatever ended the publish phase (success,
\* HTTP error, embedded error, exhausted retries, another exception).
C1_FileGoneWhenMainEnds ==
    (Ended /\ "get_comics" \in returned) =>
        /\ result \in {"returned", "raised"}
        /\ comic.filename \notin disk
        /\ disk = {}

\* C1 witness: the file was written and uploaded, a later platform call
\* raised an exception main does not catch, and main has ended.
C1_Witness ==
    /\ Ended
    /\ "upload_image" \in returned
    /\ failure.op \in PlatformOps
    /\ failure.exc = "Other"
    /\ result = "raised"
    /\ removed = <<comic.filename>>

\* C2 (as claimed): every connection failure, non-2xx status or embedded
\* platform error of any of the six operations is logged and main returns
\* normally.
C2_NoFailureLeavesMain ==
    (Ended /\ failure.exc \in {"ConnectionError", "HTTPError"}) =>
        /\ result = "returned"
        /\ Len(logs) = 1

\* C3: no operation is attempted more than RetryTries (3) times; a connection
\* failure is reported to main only when the operation was attempted 3
\* times; an operation that returned is not attempted again.
C3_ThreeAttempts ==
    /\ attempts <= RetryTries
    /\ tries \in 0..RetryTries
    /\ failure.exc = "ConnectionError" =>
           /\ attempts = RetryTries
           /\ tries = 0
           /\ response.status = "ConnectionError"
    /\ \A op \in returned :
           /\ pc # op
           /\ (op = "get_comics" => pc # "download_file")
    /\ (pc \in FetchOps \cup PlatformOps /\ attempts > 0) =>
           response.status = "ConnectionError"

\* C3 witness: the wall post failed with a connection error on all three
\* attempts and the failure reached main.
C3_Witness ==
    /\ failure = [op |-> "publish_wall_post", exc |-> "ConnectionError"]
    /\ attempts = RetryTries

\* the last attempt ended with a non-2xx status or an embedded platform error
AttemptEndedWithHttpError ==
    \/ response.status = "non2xx"
    \/ /\ response.op \in PlatformOps
       /\ response.status = "2xx"
       /\ response.error = "object"

\* C4: once an attempt ended with a non-2xx status or an embedded platform
\* error, that operation is not attempted again (also when tries remain) and
\* no later operation is started: no further request is ever sent.
C4_HttpErrorsNotRetried ==
    /\ [](AttemptEndedWithHttpError =>
            /\ failure = [op |-> response.op, exc |-> "HTTPError"]
            /\ pc \in {"finally", "done"}
            /\ LaterOps(response.op) \cap sent = {}
            /\ response.op \notin returned)
    /\ [][AttemptEndedWithHttpError =>
            /\ response' = response
            /\ sent' = sent
            /\ attempts' = attempts
            /\ downloads' = downloads
            /\ returned' = returned]_vars

\* C4 witness: the first attempt failed with a connection error, the second
\* was answered with a non-2xx status, tries remain, and the run ended.
C4_Witness ==
    /\ Ended
    /\ response.op = "get_wall_upload_server"
    /\ response.status = "non2xx"
    /\ attempts = 2
    /\ tries = 2

\* a platform call was answered 2xx with an error field of kind k
EmbeddedError(kinds) ==
    /\ response.op \in PlatformOps
    /\ response.status = "2xx"
    /\ response.error \in kinds

\* what C5 says of a response with an embedded error
TreatedAsFailure ==
    /\ response.op \notin returned
    /\ failure = [op |-> response.op, exc |-> "HTTPError"]
    /\ logs = <<"HTTPError">>
    /\ exc = "none"
    /\ pc \in {"finally", "done"}
    /\ LaterOps(response.op) \cap sent = {}
    /\ (response.op # "publish_wall_post" => post = NoPost)

\* C5 (amended): a 2xx response of a platform call whose body carries a
\* non-empty error object is never a success: the call raises, the failure
\* is logged, and no later platform call (no wall post) is made.
C5_EmbeddedErrorIsFailure == EmbeddedError({"object"}) => TreatedAsFailure

\* C5 witness: the upload was answered 2xx with an error object; the run
\* ended without a wall post.
C5_Witness ==
    /\ Ended
    /\ EmbeddedError({"object"})
    /\ response.op = "upload_image"
    /\ post = NoPost

\* C5 (as claimed): any 2xx response whose body carries an error field,
\* whatever its value, is a failure.
C5_AnyErrorFieldIsFailure == EmbeddedError({"object", "empty"}) => TreatedAsFailure

\* C6: a request of an operation is sent only when every earlier operation
\* of the pipeline has returned; a wall post is sent only after the comic
\* was downloaded, the endpoint obtained, the file uploaded, the photo saved.
C6_FixedOrder ==
    /\ \A op \in sent : EarlierOps(op) \subseteq returned
    /\ \A op \in returned : op \in sent
    /\ post # NoPost =>
           /\ "publish_wall_post" \in sent
           /\ EarlierOps("publish_wall_post") \subseteq returned
           /\ comic # NoComic
           /\ media_address # <<>>
           /\ media # NoMedia
           /\ saved # NoSaved
    /\ (pc \in PlatformOps \/ pc = "finally") => FetchOps \subseteq returned

\* C6 witness: the wall post was sent and answered.
C6_Witness ==
    /\ "publish_wall_post" \in returned
    /\ post # NoPost

\* the path component of an image URL: what follows the host, up to the
\* first "?" or "#"
PathOf(url) ==
    LET stops == {i \in 4..Len(url) : url[i] \in {"?", "#"}}
        stop  == IF stops = {} THEN Len(url) + 1
                 ELSE CHOOSE i \in stops : \A j \in stops : i <= j
    IN  SubSeq(url, 4, stop - 1)

\* a path with its percent escapes decoded
Decoded(p) == [i \in 1..Len(p) |-> IF p[i] = "%2E" THEN "." ELSE p[i]]

\* the extension of a path: from the last dot of its last segment, when a
\* character other than a dot precedes that dot in the segment
ExtensionOf(p) ==
    LET dots == {d \in 1..Len(p) :
                    /\ p[d] = "."
                    /\ \A j \in (d + 1)..Len(p) : p[j] \notin {".", "/"}
                    /\ \E k \in 1..(d - 1) :
                           /\ p[k] # "."
                           /\ \A j \in k..d : p[j] # "/"}
    IN  IF dots = {} THEN <<>> ELSE SubSeq(p, CHOOSE d \in dots : TRUE, Len(p))

\* the name C7 gives the file of comic c, with the given prefix
NamedWith(prefix, c) ==
    c.filename = <<prefix, ToString(comics_number), "_">> \o c.title
                     \o ExtensionOf(Decoded(PathOf(c.img_url)))

\* the file of the run is the one file written, read and removed
OneFileName ==
    /\ disk \subseteq {comic.filename}
    /\ opened \subseteq {comic.filename}
    /\ \A i \in 1..Len(removed) : removed[i] = comic.filename
    /\ (pc \in PlatformOps \/ pc = "finally") => disk = {comic.filename}

C8_Attachment ==
    post # NoPost =>
        /\ saved # NoSaved
        /\ post.attachments =
               <<"photo", ToString(saved.owner_id), "_", ToString(saved.id)>>
        /\ photo_id = saved.id
        /\ owner_id = saved.owner_id

\* C8 witness: id 10 and owner_id 20 were saved and photo20_10 was posted.
C8_Witness ==
    /\ saved = [id |-> 10, owner_id |-> 20]
    /\ post.attachments = <<"photo", "20", "_", "10">>

\* C9: in get_comics the two requests share one retry budget: the function
\* is attempted at most 3 times, every download follows a successful
\* metadata request of the same attempt, and a failed download restarts at
\* the metadata request.
C9_SharedRetryBudget ==
    /\ (pc \in {"get_comics", "download_file"} \/ failure.op = "get_comics") =>
           /\ attempts <= RetryTries
           /\ metaOk <= attempts
           /\ downloads <= metaOk
           /\ tries = RetryTries - attempts
                  + (IF pc = "download_file" \/ failure.exc \in {"HTTPError", "Other"}
                     THEN 1 ELSE 0)
    /\ pc = "download_file" => metaOk = downloads + 1
    /\ pc # "download_file" => metaOk = downloads

\* C9 witness: the fetch was reported as failed after three attempts of
\* which only one reached the image download.
C9_Witness ==
    /\ failure = [op |-> "get_comics", exc |-> "ConnectionError"]
    /\ attempts = RetryTries
    /\ downloads = 1

\* C10: the file exists at the start of every upload_image attempt and
\* through the publish phase; it is removed once, after the publish phase;
\* a run whose fetch phase fails with a connection error writes and removes
\* no file.
C10_FileLifetime ==
    /\ pc \in PlatformOps =>
           /\ comic.filename \in disk
           /\ removed = <<>>
    /\ pc = "finally" => (comic.filename \in disk /\ removed = <<>>)
    /\ Len(removed) <= 1
    /\ (Ended /\ "get_comics" \in returned) => removed = <<comic.filename>>
    /\ "get_comics" \notin returned => (disk = {} /\ removed = <<>>)
    /\ (failure.op \in FetchOps /\ failure.exc = "ConnectionError") =>
           /\ disk = {}
           /\ removed = <<>>
           /\ Ended

\* C10 witness: a retried attempt of upload_image is about to start and the
\* file is there.
C10_Witness ==
    /\ pc = "upload_image"
    /\ attempts = 2
    /\ comic.filename \in disk

====
